---------------------------- MODULE Spec2Model ----------------------------
(***************************************************************************)
(* The Cherri grammar of src/grammar.js (the aliased revision, lines       *)
(* 12-329) as the parser tree-sitter builds from it: a context-aware       *)
(* longest-match lexer over the source text and an LR parser whose         *)
(* shift/reduce and reduce/reduce conflicts are settled by the rules'      *)
(* prec / prec.left / prec.right annotations.  The plain-literal revision  *)
(* of the same file (lines 331-643) is a second rule table for the same    *)
(* lexer and parser.                                                       *)
(*                                                                         *)
(* Source text is a sequence of one-character strings.  A symbol is a      *)
(* string: a rule name ("if_statement", "identifier") or, for a literal    *)
(* token of the grammar, its spelling between apostrophes ("'if'").        *)
(***************************************************************************)
EXTENDS Naturals, Integers, Sequences, FiniteSets, TLC

VARIABLES
  text,    \* the source text being parsed
  pos,     \* index of the next unread character of text
  la,      \* the lookahead token [t, s, e], NoToken when none is held
  stack,   \* the parse stack: entries [st, forest, extra]
  pc,      \* "parse", "done" (accepted) or "error"
  tree,    \* the root node once pc = "done", NoNode before
  base,    \* in a second parse: the shape of the first tree and what was
           \* inserted where, [shape, at, fill, quoted]; else NoBase
  rev      \* the revision of the grammar the parser was generated from:
           \* 1 (src/grammar.js 1-329) or 2 (src/grammar.js 331-643)

vars == <<text, pos, la, stack, pc, tree, base, rev>>

---------------------------------------------------------------------------
(* Precedence levels. *)

PREC_ASSIGN == 1
PREC_OR == 2
PREC_AND == 3
PREC_EQUALITY == 4
PREC_RELATIONAL == 5
PREC_SUM == 6
PREC_PRODUCT == 7
PREC_CALL == 8
PREC_STATEMENT == 10
PREC_DICTIONARY == 11
PREC_BLOCK == 1
PREC_NONE == 0

---------------------------------------------------------------------------
(* Rule-table constructors.  A production is [lhs, rhs, prec, assoc]; a    *)
(* step of its right-hand side is [s, f, a]: symbol, field name, alias.    *)

S(sym) == [s |-> sym, f |-> "", a |-> ""]
F(fld, sym) == [s |-> sym, f |-> fld, a |-> ""]
A(sym, als) == [s |-> sym, f |-> "", a |-> als]
FA(fld, sym, als) == [s |-> sym, f |-> fld, a |-> als]

P(lhs, rhs, prec, assoc) == [lhs |-> lhs, rhs |-> rhs, prec |-> prec, assoc |-> assoc]

\* repeat(x) expands to an auxiliary rule  aux -> aux aux | x
Repeat1(aux, alts) ==
  <<P(aux, <<S(aux), S(aux)>>, PREC_NONE, "none")>> \o
  [i \in 1..Len(alts) |-> P(aux, alts[i], PREC_NONE, "none")]

\* choice of single symbols as unit productions of lhs
Choice(lhs, syms) == [i \in 1..Len(syms) |-> P(lhs, <<S(syms[i])>>, PREC_NONE, "none")]

\* choice of aliased literal tokens, given as <<literal, alias>> pairs
AliasChoice(lhs, pairs) ==
  [i \in 1..Len(pairs) |-> P(lhs, <<A(pairs[i][1], pairs[i][2])>>, PREC_NONE, "none")]

BodyAlts == <<"block", "_statement">>

---------------------------------------------------------------------------
(* The rules. *)

source_file ==
  <<P("source_file", <<>>, PREC_NONE, "none"),
    P("source_file", <<S("source_file_repeat1")>>, PREC_NONE, "none")>>
  \o Repeat1("source_file_repeat1", << <<S("_statement")>> >>)

_statement ==
  Choice("_statement",
    <<"pragma", "assignment", "declaration", "if_statement", "for_statement",
      "repeat_statement", "menu_statement", "item_statement", "block",
      "_expression">>)

pragma ==
  LET vals == <<"string", "single_quoted_string", "identifier", "keyword", "type_name">>
  IN [i \in 1..Len(vals) |->
        P("pragma", <<F("directive", "pragma_directive"), F("value", vals[i])>>,
          PREC_NONE, "none")]

pragma_directive ==
  AliasChoice("pragma_directive",
    << <<"'#include'", "include_directive">>, <<"'#define'", "define_directive">>,
       <<"'#import'", "import_directive">>, <<"'#question'", "question_directive">> >>)

declaration ==
  LET types == <<"type_name", "identifier">>
  IN [i \in 1..Len(types) |->
        P("declaration", <<F("name", "at_variable"), S("':'"), F("type", types[i])>>,
          PREC_NONE, "none")]

assignment ==
  LET names == <<"identifier", "at_variable">>
      const == FA("const_modifier", "'const'", "const_keyword")
      rest(n) == <<F("name", n), S("'='"), F("value", "_expression")>>
  IN [i \in 1..Len(names) |-> P("assignment", rest(names[i]), PREC_ASSIGN, "none")]
     \o [i \in 1..Len(names) |->
           P("assignment", <<const>> \o rest(names[i]), PREC_ASSIGN, "none")]

\* the other associativity
LeftAssoc == "left"

if_statement_assoc == "right"

if_statement ==
  LET head == <<FA("if_keyword", "'if'", "if_keyword"), F("condition", "_expression")>>
      else == FA("else_keyword", "'else'", "else_keyword")
      short == [i \in 1..2 |->
                 P("if_statement", head \o <<F("consequence", BodyAlts[i])>>,
                   PREC_STATEMENT, if_statement_assoc)]
      long == [k \in 1..4 |->
                 P("if_statement",
                   head \o <<F("consequence", BodyAlts[((k - 1) \div 2) + 1]), else,
                             F("alternative", BodyAlts[((k - 1) % 2) + 1])>>,
                   PREC_STATEMENT, if_statement_assoc)]
  IN short \o long

for_statement ==
  [i \in 1..2 |->
     P("for_statement",
       <<FA("for_keyword", "'for'", "for_keyword"), F("variable", "identifier"),
         FA("in_keyword", "'in'", "in_keyword"), F("iterable", "_expression"),
         F("body", BodyAlts[i])>>,
       PREC_STATEMENT, "none")]

repeat_statement ==
  LET kw == FA("repeat_keyword", "'repeat'", "repeat_keyword")
      three == [i \in 1..2 |->
                 P("repeat_statement",
                   <<kw, F("variable", "identifier"),
                     FA("for_keyword", "'for'", "for_keyword"),
                     F("count", "_expression"), F("body", BodyAlts[i])>>,
                   PREC_STATEMENT, "none")]
      two == [i \in 1..2 |->
                 P("repeat_statement",
                   <<kw, F("count", "_expression"), F("body", BodyAlts[i])>>,
                   PREC_STATEMENT, "none")]
      one == [i \in 1..2 |->
                 P("repeat_statement", <<kw, F("body", BodyAlts[i])>>,
                   PREC_STATEMENT, "none")]
  IN three \o two \o one

menu_statement ==
  LET kw == FA("menu_keyword", "'menu'", "menu_keyword")
  IN <<P("menu_statement", <<kw, F("title", "_expression"), F("body", "block")>>,
         PREC_STATEMENT, "none"),
       P("menu_statement", <<kw, F("body", "block")>>, PREC_STATEMENT, "none")>>

item_statement ==
  [i \in 1..2 |->
     P("item_statement",
       <<FA("item_keyword", "'item'", "item_keyword"), F("title", "_expression"),
         S("':'"), F("body", BodyAlts[i])>>,
       PREC_STATEMENT, "none")]

block ==
  <<P("block", <<S("'{'"), S("'}'")>>, PREC_BLOCK, "none"),
    P("block", <<S("'{'"), S("source_file_repeat1"), S("'}'")>>, PREC_BLOCK, "none")>>

_expression ==
  Choice("_expression",
    <<"binary_expression", "call", "parenthesized_expression", "dictionary",
      "identifier", "at_variable", "number", "string", "single_quoted_string",
      "boolean", "named_constant", "keyword", "type_name">>)

dictionary ==
  <<P("dictionary", <<S("'{'"), S("'}'")>>, PREC_DICTIONARY, "none"),
    P("dictionary", <<S("'{'"), S("dictionary_pair"), S("'}'")>>, PREC_DICTIONARY, "none"),
    P("dictionary", <<S("'{'"), S("dictionary_pair"), S("dictionary_repeat1"), S("'}'")>>,
      PREC_DICTIONARY, "none")>>
  \o Repeat1("dictionary_repeat1", << <<S("','"), S("dictionary_pair")>> >>)

dictionary_pair ==
  LET keys == <<"string", "identifier">>
  IN [i \in 1..Len(keys) |->
        P("dictionary_pair", <<F("key", keys[i]), S("':'"), F("value", "_expression")>>,
          PREC_NONE, "none")]

boolean ==
  AliasChoice("boolean",
    << <<"'true'", "true_literal">>, <<"'false'", "false_literal">> >>)

keyword ==
  AliasChoice("keyword",
    << <<"'name'", "name_keyword">>, <<"'glyph'", "glyph_keyword">>,
       <<"'from'", "from_keyword">>, <<"'mac'", "mac_keyword">>,
       <<"'inputs'", "inputs_keyword">>, <<"'noinput'", "noinput_keyword">>,
       <<"'askfor'", "askfor_keyword">>, <<"'getclipboard'", "getclipboard_keyword">>,
       <<"'list'", "list_keyword">>, <<"'nil'", "nil_keyword">>,
       <<"'action'", "action_keyword">>, <<"'stop'", "stop_keyword">>,
       <<"'makeVCard'", "makevcard_keyword">>, <<"'rawAction'", "rawaction_keyword">>,
       <<"'embedFile'", "embedfile_keyword">>, <<"'nothing'", "nothing_keyword">> >>)

parenthesized_expression ==
  <<P("parenthesized_expression", <<S("'('"), S("_expression"), S("')'")>>,
      PREC_NONE, "none")>>

\* the operators of binary_expression, in source order, with their levels
BinaryOps ==
  << <<"'*'", PREC_PRODUCT>>, <<"'/'", PREC_PRODUCT>>,
     <<"'+'", PREC_SUM>>, <<"'-'", PREC_SUM>>,
     <<"'=='", PREC_EQUALITY>>, <<"'!='", PREC_EQUALITY>>,
     <<"'<'", PREC_RELATIONAL>>, <<"'>'", PREC_RELATIONAL>>,
     <<"'<='", PREC_RELATIONAL>>, <<"'>='", PREC_RELATIONAL>> >>

\* the other associativity
RightAssoc == "right"

binary_assoc == "left"

binary_expression ==
  [i \in 1..Len(BinaryOps) |->
     P("binary_expression",
       <<S("_expression"), S(BinaryOps[i][1]), S("_expression")>>,
       BinaryOps[i][2], binary_assoc)]

call ==
  LET fns == <<"identifier", "keyword", "type_name">>
      args == << <<>>,
                 <<F("arguments", "_expression")>>,
                 <<F("arguments", "_expression"), F("arguments", "call_repeat1")>> >>
  IN [k \in 1..9 |->
        P("call",
          <<F("function", fns[((k - 1) \div 3) + 1]), S("'('")>>
            \o args[((k - 1) % 3) + 1] \o <<S("')'")>>,
          PREC_CALL, "left")]
     \o Repeat1("call_repeat1", << <<S("','"), S("_expression")>> >>)

string ==
  <<P("string", <<S("'dq'"), S("'dq'")>>, PREC_NONE, "none"),
    P("string", <<S("'dq'"), S("string_repeat1"), S("'dq'")>>, PREC_NONE, "none")>>
  \o Repeat1("string_repeat1",
       << <<S("string_content")>>, <<S("escape_sequence")>>, <<S("interpolation")>> >>)

single_quoted_string ==
  <<P("single_quoted_string", <<S("'sq'"), S("'sq'")>>, PREC_NONE, "none"),
    P("single_quoted_string", <<S("'sq'"), S("single_quoted_string_repeat1"), S("'sq'")>>,
      PREC_NONE, "none")>>
  \o Repeat1("single_quoted_string_repeat1",
       << <<S("sq_content")>>, <<S("escape_sequence")>> >>)

interpolation ==
  <<P("interpolation", <<S("'{'"), S("'}'")>>, PREC_NONE, "none"),
    P("interpolation", <<S("'{'"), S("interpolation_repeat1"), S("'}'")>>,
      PREC_NONE, "none")>>
  \o Repeat1("interpolation_repeat1", << <<S("interp_char")>> >>)

named_constant ==
  AliasChoice("named_constant",
    << <<"'CurrentDate'", "currentdate_constant">>, <<"'Device'", "device_constant">>,
       <<"'RepeatIndex'", "repeatindex_constant">>, <<"'RepeatItem'", "repeatitem_constant">>,
       <<"'ShortcutInput'", "shortcutinput_constant">>, <<"'Ask'", "ask_constant">> >>)

type_name ==
  AliasChoice("type_name",
    << <<"'text'", "text_type">>, <<"'number'", "number_type">>,
       <<"'bool'", "bool_type">>, <<"'dictionary'", "dictionary_type">>,
       <<"'array'", "array_type">>, <<"'variable'", "variable_type">>,
       <<"'color'", "color_type">>, <<"'float'", "float_type">> >>)

\* the augmented start production, then every rule of the grammar
Prods ==
  <<P("S'", <<S("source_file"), S("$end")>>, PREC_NONE, "none")>>
  \o source_file \o _statement \o pragma \o pragma_directive \o declaration
  \o assignment \o if_statement \o for_statement \o repeat_statement
  \o menu_statement \o item_statement \o block \o _expression \o dictionary
  \o dictionary_pair \o boolean \o keyword \o parenthesized_expression
  \o binary_expression \o call \o string \o single_quoted_string
  \o interpolation \o named_constant \o type_name

---------------------------------------------------------------------------
(* The second revision of the grammar (src/grammar.js 331-643).  Its       *)
(* keywords are plain literals, and the pragma's directive is a choice     *)
(* written in the pragma rule itself.  The rules it words exactly as the   *)
(* first revision does are taken from above.                               *)

pragma_plain ==
  LET dirs == <<"'#include'", "'#define'", "'#import'", "'#question'">>
      vals == <<"string", "single_quoted_string", "identifier", "keyword", "type_name">>
  IN [k \in 1..(Len(dirs) * Len(vals)) |->
        P("pragma",
          <<S(dirs[((k - 1) \div Len(vals)) + 1]),
            F("value", vals[((k - 1) % Len(vals)) + 1])>>,
          PREC_NONE, "none")]

assignment_plain ==
  LET names == <<"identifier", "at_variable">>
      rest(n) == <<F("name", n), S("'='"), F("value", "_expression")>>
  IN [i \in 1..Len(names) |-> P("assignment", rest(names[i]), PREC_ASSIGN, "none")]
     \o [i \in 1..Len(names) |->
           P("assignment", <<S("'const'")>> \o rest(names[i]), PREC_ASSIGN, "none")]

if_statement_plain ==
  LET head == <<S("'if'"), F("condition", "_expression")>>
      short == [i \in 1..2 |->
                 P("if_statement", head \o <<F("consequence", BodyAlts[i])>>,
                   PREC_STATEMENT, "right")]
      long == [k \in 1..4 |->
                 P("if_statement",
                   head \o <<F("consequence", BodyAlts[((k - 1) \div 2) + 1]), S("'else'"),
                             F("alternative", BodyAlts[((k - 1) % 2) + 1])>>,
                   PREC_STATEMENT, "right")]
  IN short \o long

for_statement_plain ==
  [i \in 1..2 |->
     P("for_statement",
       <<S("'for'"), F("variable", "identifier"), S("'in'"),
         F("iterable", "_expression"), F("body", BodyAlts[i])>>,
       PREC_STATEMENT, "none")]

repeat_statement_plain ==
  LET three == [i \in 1..2 |->
                 P("repeat_statement",
                   <<S("'repeat'"), F("variable", "identifier"), S("'for'"),
                     F("count", "_expression"), F("body", BodyAlts[i])>>,
                   PREC_STATEMENT, "none")]
      two == [i \in 1..2 |->
                 P("repeat_statement",
                   <<S("'repeat'"), F("count", "_expression"), F("body", BodyAlts[i])>>,
                   PREC_STATEMENT, "none")]
      one == [i \in 1..2 |->
                 P("repeat_statement", <<S("'repeat'"), F("body", BodyAlts[i])>>,
                   PREC_STATEMENT, "none")]
  IN three \o two \o one

menu_statement_plain ==
  <<P("menu_statement", <<S("'menu'"), F("title", "_expression"), F("body", "block")>>,
      PREC_STATEMENT, "none"),
    P("menu_statement", <<S("'menu'"), F("body", "block")>>, PREC_STATEMENT, "none")>>

item_statement_plain ==
  [i \in 1..2 |->
     P("item_statement",
       <<S("'item'"), F("title", "_expression"), S("':'"), F("body", BodyAlts[i])>>,
       PREC_STATEMENT, "none")]

\* a boolean rule that has lost its second word
OnlyTrue == Choice("boolean", <<"'true'">>)

boolean_plain == Choice("boolean", <<"'true'", "'false'">>)

keyword_plain ==
  Choice("keyword",
    <<"'name'", "'glyph'", "'from'", "'mac'", "'inputs'", "'noinput'", "'askfor'",
      "'getclipboard'", "'list'", "'nil'", "'action'", "'stop'", "'makeVCard'",
      "'rawAction'", "'embedFile'", "'nothing'">>)

named_constant_plain ==
  Choice("named_constant",
    <<"'CurrentDate'", "'Device'", "'RepeatIndex'", "'RepeatItem'", "'ShortcutInput'",
      "'Ask'">>)

type_name_plain ==
  Choice("type_name",
    <<"'text'", "'number'", "'bool'", "'dictionary'", "'array'", "'variable'",
      "'color'", "'float'">>)

\* the augmented start production, then every rule of the second revision
Prods_plain ==
  <<P("S'", <<S("source_file"), S("$end")>>, PREC_NONE, "none")>>
  \o source_file \o _statement \o pragma_plain \o declaration
  \o assignment_plain \o if_statement_plain \o for_statement_plain
  \o repeat_statement_plain \o menu_statement_plain \o item_statement_plain
  \o block \o _expression \o dictionary \o dictionary_pair \o boolean_plain
  \o keyword_plain \o parenthesized_expression \o binary_expression \o call
  \o string \o single_quoted_string \o interpolation \o named_constant_plain
  \o type_name_plain

---------------------------------------------------------------------------
(* Tokens. *)

\* the literal tokens of the grammar with their spellings
Spelling ==
  <<
    <<"'const'", <<"c","o","n","s","t">>>>,
    <<"'if'", <<"i","f">>>>,
    <<"'else'", <<"e","l","s","e">>>>,
    <<"'for'", <<"f","o","r">>>>,
    <<"'in'", <<"i","n">>>>,
    <<"'repeat'", <<"r","e","p","e","a","t">>>>,
    <<"'menu'", <<"m","e","n","u">>>>,
    <<"'item'", <<"i","t","e","m">>>>,
    <<"'true'", <<"t","r","u","e">>>>,
    <<"'false'", <<"f","a","l","s","e">>>>,
    <<"'name'", <<"n","a","m","e">>>>,
    <<"'glyph'", <<"g","l","y","p","h">>>>,
    <<"'from'", <<"f","r","o","m">>>>,
    <<"'mac'", <<"m","a","c">>>>,
    <<"'inputs'", <<"i","n","p","u","t","s">>>>,
    <<"'noinput'", <<"n","o","i","n","p","u","t">>>>,
    <<"'askfor'", <<"a","s","k","f","o","r">>>>,
    <<"'getclipboard'", <<"g","e","t","c","l","i","p","b","o","a","r","d">>>>,
    <<"'list'", <<"l","i","s","t">>>>,
    <<"'nil'", <<"n","i","l">>>>,
    <<"'action'", <<"a","c","t","i","o","n">>>>,
    <<"'stop'", <<"s","t","o","p">>>>,
    <<"'makeVCard'", <<"m","a","k","e","V","C","a","r","d">>>>,
    <<"'rawAction'", <<"r","a","w","A","c","t","i","o","n">>>>,
    <<"'embedFile'", <<"e","m","b","e","d","F","i","l","e">>>>,
    <<"'nothing'", <<"n","o","t","h","i","n","g">>>>,
    <<"'text'", <<"t","e","x","t">>>>,
    <<"'number'", <<"n","u","m","b","e","r">>>>,
    <<"'bool'", <<"b","o","o","l">>>>,
    <<"'dictionary'", <<"d","i","c","t","i","o","n","a","r","y">>>>,
    <<"'array'", <<"a","r","r","a","y">>>>,
    <<"'variable'", <<"v","a","r","i","a","b","l","e">>>>,
    <<"'color'", <<"c","o","l","o","r">>>>,
    <<"'float'", <<"f","l","o","a","t">>>>,
    <<"'CurrentDate'", <<"C","u","r","r","e","n","t","D","a","t","e">>>>,
    <<"'Device'", <<"D","e","v","i","c","e">>>>,
    <<"'RepeatIndex'", <<"R","e","p","e","a","t","I","n","d","e","x">>>>,
    <<"'RepeatItem'", <<"R","e","p","e","a","t","I","t","e","m">>>>,
    <<"'ShortcutInput'", <<"S","h","o","r","t","c","u","t","I","n","p","u","t">>>>,
    <<"'Ask'", <<"A","s","k">>>>,
    <<"'#include'", <<"#","i","n","c","l","u","d","e">>>>,
    <<"'#define'", <<"#","d","e","f","i","n","e">>>>,
    <<"'#import'", <<"#","i","m","p","o","r","t">>>>,
    <<"'#question'", <<"#","q","u","e","s","t","i","o","n">>>>,
    <<"'='", <<"=">>>>,
    <<"':'", <<":">>>>,
    <<"','", <<",">>>>,
    <<"'('", <<"(">>>>,
    <<"')'", <<")">>>>,
    <<"'{'", <<"{">>>>,
    <<"'}'", <<"}">>>>,
    <<"'*'", <<"*">>>>,
    <<"'/'", <<"/">>>>,
    <<"'+'", <<"+">>>>,
    <<"'-'", <<"-">>>>,
    <<"'=='", <<"=","=">>>>,
    <<"'!='", <<"!","=">>>>,
    <<"'<'", <<"<">>>>,
    <<"'>'", <<">">>>>,
    <<"'<='", <<"<","=">>>>,
    <<"'>='", <<">","=">>>>,
    <<"'dq'", <<"\"">>>>,
    <<"'sq'", <<"'">>>>
  >>

Lower ==
  {"a","b","c","d","e","f","g","h","i","j","k","l","m",
   "n","o","p","q","r","s","t","u","v","w","x","y","z"}

Upper ==
  {"A","B","C","D","E","F","G","H","I","J","K","L","M",
   "N","O","P","Q","R","S","T","U","V","W","X","Y","Z"}

Digits == {"0","1","2","3","4","5","6","7","8","9"}

\* the separator /\s+/
WS == {" ", "\t", "\n", "\r"}

LineEnd == {"\n", "\r"}

\* /[A-Za-z_][A-Za-z0-9_]*/
IdStart == Lower \cup Upper \cup {"_"}

IdChars == Lower \cup Upper \cup {"_"} \cup Digits

\* the characters at_variable stops at: /@[^ \t\n\r:]+/
AtStop == {" ", "\t", "\n", "\r", ":"}

\* the characters string_content stops at: /[^"\\{]+/
ContentStop == {"\"", "\\", "{"}

\* the characters the single-quoted content stops at: /[^'\\]+/
SqStop == {"'", "\\"}

PatternTokens ==
  {"identifier", "number", "at_variable", "string_content", "escape_sequence",
   "sq_content", "interp_char", "comment"}

\* tokens built with token.immediate: no separator may precede them
ImmediateTokens == {"string_content", "escape_sequence", "sq_content"}

\* tokens that are named nodes of the tree
NamedTokens ==
  {"identifier", "number", "at_variable", "string_content", "escape_sequence", "comment"}

\* no token is an extra
NoExtras == {}

\* extras: [/\s+/, $.comment]
Extras == {"comment"}

\* lexical precedence: token.immediate(prec(1, ...))
LexPrec(t) == IF t \in {"string_content", "sq_content"} THEN 1 ELSE 0

Ch(txt, i) == IF i >= 1 /\ i <= Len(txt) THEN txt[i] ELSE ""

\* a source text is the sequence of its characters
Chars(str) == [i \in 1..Len(str) |-> SubSeq(str, i, i)]

RECURSIVE Rep(_, _)
Rep(txt, n) == IF n = 0 THEN <<>> ELSE txt \o Rep(txt, n - 1)

\* the first index at or after i whose character is not in the class; the
\* class is `set`, or its complement when neg
RECURSIVE Run(_, _, _, _)
Run(txt, i, set, neg) ==
  IF i <= Len(txt) /\ ((txt[i] \in set) # neg) THEN Run(txt, i + 1, set, neg) ELSE i

\* Each matcher gives the index after the match it finds at i, or 0.
MatchLit(txt, i, sp) ==
  IF i + Len(sp) - 1 <= Len(txt) /\ SubSeq(txt, i, i + Len(sp) - 1) = sp
  THEN i + Len(sp) ELSE 0

identifier(txt, i) ==
  IF Ch(txt, i) \in IdStart THEN Run(txt, i + 1, IdChars, FALSE) ELSE 0

\* /[0-9]+(\.[0-9]+)?/
number(txt, i) ==
  IF Ch(txt, i) \in Digits
  THEN LET q == Run(txt, i, Digits, FALSE)
       IN IF Ch(txt, q) = "." /\ Ch(txt, q + 1) \in Digits
          THEN Run(txt, q + 1, Digits, FALSE) ELSE q
  ELSE 0

at_variable(txt, i) ==
  IF Ch(txt, i) = "@"
  THEN LET q == Run(txt, i + 1, AtStop, TRUE) IN IF q > i + 1 THEN q ELSE 0
  ELSE 0

string_content(txt, i) ==
  LET q == Run(txt, i, ContentStop, TRUE) IN IF q > i THEN q ELSE 0

sq_content(txt, i) ==
  LET q == Run(txt, i, SqStop, TRUE) IN IF q > i THEN q ELSE 0

\* seq("\\", /./): the dot matches no line end
escape_sequence(txt, i) ==
  IF Ch(txt, i) = "\\" /\ Ch(txt, i + 1) \notin ({""} \cup LineEnd) THEN i + 2 ELSE 0

\* /[^}]/
interp_char(txt, i) ==
  IF Ch(txt, i) \notin {"", "}"} THEN i + 1 ELSE 0

\* after "/*": repeat(choice(/[^*]/, /\*+[^*/]/)) then "*/"
RECURSIVE BlockCommentBody(_, _)
BlockCommentBody(txt, q) ==
  IF q > Len(txt) THEN 0
  ELSE IF txt[q] # "*" THEN BlockCommentBody(txt, q + 1)
  ELSE IF Ch(txt, q + 1) = "/" THEN q + 2
  ELSE LET r == Run(txt, q, {"*"}, FALSE)
       IN IF r <= Len(txt) /\ txt[r] # "/" THEN BlockCommentBody(txt, r + 1) ELSE 0

comment(txt, i) ==
  IF Ch(txt, i) = "/" /\ Ch(txt, i + 1) = "/" THEN Run(txt, i + 2, LineEnd, TRUE)
  ELSE IF Ch(txt, i) = "/" /\ Ch(txt, i + 1) = "*" THEN BlockCommentBody(txt, i + 2)
  ELSE 0

\* word: $.identifier -- a literal spelled like an identifier is a keyword:
\* it matches only a whole word
word(txt, i, sp) ==
  LET q == MatchLit(txt, i, sp)
  IN IF q > 0 /\ Ch(sp, 1) \in IdStart /\ Ch(txt, q) \in IdChars THEN 0 ELSE q

\* the match of token t at i; sp is the spelling of t when t is a literal
Match(t, sp, txt, i) ==
  CASE t = "identifier" -> identifier(txt, i)
    [] t = "number" -> number(txt, i)
    [] t = "at_variable" -> at_variable(txt, i)
    [] t = "string_content" -> string_content(txt, i)
    [] t = "sq_content" -> sq_content(txt, i)
    [] t = "escape_sequence" -> escape_sequence(txt, i)
    [] t = "interp_char" -> interp_char(txt, i)
    [] t = "comment" -> comment(txt, i)
    [] OTHER -> word(txt, i, sp)

---------------------------------------------------------------------------
(* The LR automaton of the rule table.  An item is [p, d]: production p   *)
(* with d steps done.  A parse state is a closed set of items.  The       *)
(* tables made from the rules are gathered in one record g.               *)

\* auxiliary rules made by repeat(), and the rules named with a leading
\* underscore, leave no node in the tree
AuxRules ==
  {"source_file_repeat1", "dictionary_repeat1", "call_repeat1", "string_repeat1",
   "single_quoted_string_repeat1", "interpolation_repeat1"}

Hidden == AuxRules \cup {"_statement", "_expression", "S'"}

\* the nonterminals that can begin a derivation from those of `set`
RECURSIVE LeftReach(_, _, _)
LeftReach(prods, nts, set) ==
  LET more == {prods[p].rhs[1].s :
                 p \in {q \in 1..Len(prods) : prods[q].lhs \in set /\ Len(prods[q].rhs) > 0}}
      nxt == set \cup (more \cap nts)
  IN IF nxt = set THEN set ELSE LeftReach(prods, nts, nxt)

FirstSyms(prods, items) ==
  {prods[i.p].rhs[1].s : i \in {j \in items : Len(prods[j.p].rhs) > 0}}

Tables(prods, spelling) ==
  LET nts == {prods[p].lhs : p \in 1..Len(prods)}
      closure == [X \in nts |->
                    {[p |-> q, d |-> 0] :
                       q \in {r \in 1..Len(prods) : prods[r].lhs \in LeftReach(prods, nts, {X})}}]
      lits == {spelling[i][1] : i \in 1..Len(spelling)}
  IN [prods |-> prods,
      nts |-> nts,
      closure |-> closure,
      first |-> [X \in nts |-> FirstSyms(prods, closure[X]) \ nts],
      lits |-> lits,
      spell |-> [t \in lits \cup PatternTokens |->
                   IF t \in lits
                   THEN spelling[CHOOSE i \in 1..Len(spelling) : spelling[i][1] = t][2]
                   ELSE <<>>]]

G == Tables(Prods, Spelling)

\* the tables of the second revision; its literals are spelled the same
G_plain == Tables(Prods_plain, Spelling)

\* the tables of the parser in use
Grammar == IF rev = 1 THEN G ELSE G_plain

NextSym(g, i) ==
  IF i.d < Len(g.prods[i.p].rhs) THEN g.prods[i.p].rhs[i.d + 1].s ELSE ""

Complete(g, i) == i.d = Len(g.prods[i.p].rhs)

First(g, sym) == IF sym \in g.nts THEN g.first[sym] ELSE {sym}

Closure(g, K) ==
  K \cup UNION {g.closure[X] : X \in {NextSym(g, i) : i \in K} \cap g.nts}

Goto(g, I, X) ==
  Closure(g, {[p |-> i.p, d |-> i.d + 1] : i \in {j \in I : NextSym(g, j) = X}})

State0(g) == Closure(g, {[p |-> 1, d |-> 0]})

AfterReduce(g, sts, p) ==
  LET below == SubSeq(sts, 1, Len(sts) - Len(g.prods[p].rhs))
  IN Append(below, Goto(g, below[Len(below)], g.prods[p].lhs))

\* Token t is a valid lookahead on the state stack sts: it can be shifted
\* now or after some reductions (the LR(1) lookahead sets of the items).
RECURSIVE CanAccept(_, _, _)
CanAccept(g, sts, t) ==
  LET I == sts[Len(sts)]
  IN \/ \E i \in I : NextSym(g, i) = t
     \/ \E i \in {j \in I : Complete(g, j) /\ j.p # 1} :
          CanAccept(g, AfterReduce(g, sts, i.p), t)

\* the reductions the lookahead allows in the top state
Reductions(g, sts, t) ==
  {i.p : i \in {j \in sts[Len(sts)] :
                  Complete(g, j) /\ j.p # 1 /\ CanAccept(g, AfterReduce(g, sts, j.p), t)}}

MaxPrec(g, ps) ==
  CHOOSE m \in {g.prods[p].prec : p \in ps} : \A p \in ps : g.prods[p].prec <= m

\* reduce/reduce: only the reductions of the highest precedence are kept
BestReductions(g, rs) ==
  IF rs = {} THEN {} ELSE {p \in rs : g.prods[p].prec = MaxPrec(g, rs)}

\* the items a shift of t continues: past their first step, t can begin
\* their next symbol
ShiftItems(g, I, t) ==
  {i \in I : i.d > 0 /\ ~Complete(g, i) /\ t \in First(g, NextSym(g, i))}

\* a table built without regard to precedence: every conflict reduces
PrecedenceIgnored(g, sh, rs) == "reduce"

\* shift/reduce on lookahead t, given the kept reductions rs (same precedence)
ShiftOrReduce(g, sh, rs) ==
  LET rp == MaxPrec(g, rs)
      more == \E i \in sh : g.prods[i.p].prec > rp
      less == \E i \in sh : g.prods[i.p].prec < rp
      parents == {g.prods[i.p].lhs : i \in sh} \cup {g.prods[p].lhs : p \in rs}
  IN IF Cardinality(parents) = 1 /\ parents \subseteq AuxRules THEN "reduce"
     ELSE IF more /\ ~less THEN "shift"
     ELSE IF less /\ ~more THEN "reduce"
     ELSE IF more /\ less THEN "conflict"
     ELSE IF \A p \in rs : g.prods[p].assoc = "left" THEN "reduce"
     ELSE IF \A p \in rs : g.prods[p].assoc = "right" THEN "shift"
     ELSE "conflict"

\* the parse action for lookahead t: [a, p]
Action(g, sts, t) ==
  LET I == sts[Len(sts)]
      canShift == \E i \in I : NextSym(g, i) = t
      rs == BestReductions(g, Reductions(g, sts, t))
      kind == IF rs = {} THEN (IF canShift THEN "shift" ELSE "error")
              ELSE IF canShift THEN ShiftOrReduce(g, ShiftItems(g, I, t), rs)
              ELSE "reduce"
  IN IF kind = "reduce" /\ Cardinality(rs) > 1 THEN [a |-> "conflict", p |-> 0]
     ELSE IF kind = "reduce" THEN [a |-> "reduce", p |-> CHOOSE p \in rs : TRUE]
     ELSE IF kind = "shift" /\ t = "$end" THEN [a |-> "accept", p |-> 0]
     ELSE [a |-> kind, p |-> 0]

---------------------------------------------------------------------------
(* The lexer: among the tokens valid in the parse state, a token of       *)
(* higher lexical precedence is taken first; then a token that begins on  *)
(* a separator character rather than after the separators; then the      *)
(* longest match; then a literal rather than a pattern of the same length *)
(* (so a keyword over identifier).  Separators before a token are         *)
(* skipped, except before an immediate one.                               *)

\* the matches of the valid tokens at i, and after the separators at j
Candidates(g, txt, i, j, sts) ==
  LET here == [t \in DOMAIN g.spell |-> Match(t, g.spell[t], txt, i)]
      past == [t \in DOMAIN g.spell |->
                 IF t \in ImmediateTokens \/ j = i THEN 0
                 ELSE Match(t, g.spell[t], txt, j)]
      valid == {u \in DOMAIN g.spell :
                  (here[u] > 0 \/ past[u] > 0) /\ (u \in Extras \/ CanAccept(g, sts, u))}
  IN {[t |-> t, s |-> i, e |-> here[t] - 1] : t \in {u \in valid : here[u] > 0}}
     \cup {[t |-> t, s |-> j, e |-> past[t] - 1] : t \in {u \in valid : past[u] > 0}}

Better(lits, c1, c2) ==
  \/ LexPrec(c1.t) > LexPrec(c2.t)
  \/ LexPrec(c1.t) = LexPrec(c2.t) /\ c1.s < c2.s
  \/ LexPrec(c1.t) = LexPrec(c2.t) /\ c1.s = c2.s /\ c1.e > c2.e
  \/ /\ LexPrec(c1.t) = LexPrec(c2.t) /\ c1.s = c2.s /\ c1.e = c2.e
     /\ c1.t \in lits /\ c2.t \notin lits

NoToken == [t |-> "", s |-> 0, e |-> 0]

\* the token at i, the end of input, or BadToken when nothing valid matches
NextToken(g, txt, i, sts) ==
  LET j == Run(txt, i, WS, FALSE)
      cs == Candidates(g, txt, i, j, sts)
  IN IF cs # {} THEN CHOOSE c \in cs : \A d \in cs \ {c} : Better(g.lits, c, d)
     ELSE IF j > Len(txt) THEN [t |-> "$end", s |-> j, e |-> j - 1]
     ELSE [t |-> "?", s |-> j, e |-> j]

---------------------------------------------------------------------------
(* The tree.  A node is [k, n, f, s, e, x, c]: kind, named, field, first  *)
(* and last character covered, extra, children.                           *)

NoNode == [k |-> "", n |-> FALSE, f |-> "", s |-> 0, e |-> 0, x |-> FALSE, c |-> <<>>]

Leaf(tok) ==
  [k |-> tok.t, n |-> tok.t \in NamedTokens, f |-> "", s |-> tok.s, e |-> tok.e,
   x |-> tok.t \in Extras, c |-> <<>>]

RECURSIVE Flatten(_)
Flatten(ss) == IF ss = <<>> THEN <<>> ELSE Head(ss) \o Flatten(Tail(ss))

\* a step's field and alias, put on the node the step produced
Label(step, node) ==
  IF node.x THEN node
  ELSE [node EXCEPT !.f = IF step.f # "" THEN step.f ELSE @,
                    !.k = IF step.a # "" THEN step.a ELSE @,
                    !.n = IF step.a # "" THEN TRUE ELSE @]

NotExtra(en) == ~en.extra

StatesOf(stk) ==
  LET r == SelectSeq(stk, NotExtra) IN [i \in 1..Len(r) |-> r[i].st]

\* the stack index of the first of the top n entries that are not extras
FirstChild(stk, n) ==
  IF n = 0 THEN Len(stk) + 1
  ELSE CHOOSE i \in 1..Len(stk) :
         ~stk[i].extra /\ Cardinality({j \in i..Len(stk) : ~stk[j].extra}) = n

LastChild(stk, n) ==
  IF n = 0 THEN Len(stk)
  ELSE CHOOSE i \in 1..Len(stk) : ~stk[i].extra /\ \A j \in (i + 1)..Len(stk) : stk[j].extra

\* the children of a node made with right-hand side rhs from the entries lo..hi
Children(stk, rhs, lo, hi) ==
  LET part(i) ==
        IF stk[i].extra THEN stk[i].forest
        ELSE [m \in 1..Len(stk[i].forest) |->
                Label(rhs[Cardinality({j \in lo..i : ~stk[j].extra})], stk[i].forest[m])]
  IN Flatten([i \in 1..(hi - lo + 1) |-> part(lo + i - 1)])

NodeOf(kind, kids, at) ==
  [k |-> kind, n |-> TRUE, f |-> "",
   s |-> IF kids = <<>> THEN at ELSE kids[1].s,
   e |-> IF kids = <<>> THEN at - 1 ELSE kids[Len(kids)].e,
   x |-> FALSE, c |-> kids]

\* the stack after reducing by p: the node's entries are replaced by one
\* entry; extras above the last child stay on top of it
Reduced(g, stk, p, at) ==
  LET n == Len(g.prods[p].rhs)
      lhs == g.prods[p].lhs
      lo == FirstChild(stk, n)
      hi == LastChild(stk, n)
      kids == Children(stk, g.prods[p].rhs, lo, hi)
      below == SubSeq(stk, 1, lo - 1)
      sts == StatesOf(below)
      st == Goto(g, sts[Len(sts)], lhs)
      entry == [st |-> st, extra |-> FALSE,
                forest |-> IF lhs \in Hidden THEN kids ELSE <<NodeOf(lhs, kids, at)>>]
      above == SubSeq(stk, hi + 1, Len(stk))
  IN below \o <<entry>> \o [i \in 1..Len(above) |-> [above[i] EXCEPT !.st = st]]

\* the root: the source_file node with the extras around it
Root(stk) ==
  LET i == CHOOSE j \in 2..Len(stk) : ~stk[j].extra
      r == stk[i].forest[1]
  IN [r EXCEPT !.c = Flatten([j \in 1..(i - 1) |-> stk[j].forest]) \o r.c
                     \o Flatten([j \in 1..(Len(stk) - i) |-> stk[i + j].forest])]

---------------------------------------------------------------------------
(* The parser's steps. *)

\* the lexer is called when no lookahead token is held
Lex ==
  /\ pc = "parse"
  /\ la = NoToken
  /\ la' = NextToken(Grammar, text, pos, StatesOf(stack))
  /\ UNCHANGED <<text, pos, stack, pc, tree, base, rev>>

\* an extra token is put on the stack without changing the parse state
SkipExtra ==
  /\ pc = "parse"
  /\ la.t \in Extras
  /\ stack' = Append(stack, [st |-> stack[Len(stack)].st,
                             forest |-> <<Leaf(la)>>, extra |-> TRUE])
  /\ pos' = la.e + 1
  /\ la' = NoToken
  /\ UNCHANGED <<text, pc, tree, base, rev>>

\* the table entry of the held token: [a, p]
Entry(g) ==
  IF la.t \in {"", "?"} \cup Extras THEN [a |-> IF la.t = "?" THEN "error" ELSE "", p |-> 0]
  ELSE Action(g, StatesOf(stack), la.t)

Shift ==
  /\ pc = "parse"
  /\ LET g == Grammar
     IN /\ Entry(g).a = "shift"
        /\ stack' = Append(stack, [st |-> Goto(g, stack[Len(stack)].st, la.t),
                                   forest |-> <<Leaf(la)>>, extra |-> FALSE])
  /\ pos' = la.e + 1
  /\ la' = NoToken
  /\ UNCHANGED <<text, pc, tree, base, rev>>

\* a reduction keeps the lookahead token
Reduce ==
  /\ pc = "parse"
  /\ LET g == Grammar
         act == Entry(g)
     IN /\ act.a = "reduce"
        /\ stack' = Reduced(g, stack, act.p, la.s)
  /\ UNCHANGED <<text, pos, la, pc, tree, base, rev>>

Accept ==
  /\ pc = "parse"
  /\ Entry(Grammar).a = "accept"
  /\ pc' = "done"
  /\ tree' = Root(stack)
  /\ UNCHANGED <<text, pos, la, stack, base, rev>>

Fail ==
  /\ pc = "parse"
  /\ Entry(Grammar).a \in {"error", "conflict"}
  /\ pc' = "error"
  /\ UNCHANGED <<text, pos, la, stack, tree, base, rev>>

Next == Lex \/ SkipExtra \/ Shift \/ Reduce \/ Accept \/ Fail

NoBase == [shape |-> <<>>, at |-> 0, fill |-> <<>>, quoted |-> FALSE]

Start(txt) ==
  /\ text = txt
  /\ pos = 1
  /\ la = NoToken
  /\ stack = <<[st |-> State0(G), forest |-> <<>>, extra |-> FALSE]>>
  /\ pc = "parse"
  /\ tree = NoNode
  /\ base = NoBase
  /\ rev = 1

---------------------------------------------------------------------------
(* Source texts. *)

\* the operand written at place i of an operator chain
Operand(i) == <<Ch(Chars("123456789"), i)>>

MaxOps == 2

OpSpellings ==
  {Chars("*"), Chars("/"), Chars("+"), Chars("-"), Chars("=="), Chars("!="),
   Chars("<"), Chars(">"), Chars("<="), Chars(">=")}

\* one operator of each precedence level, for the chains longer than two
OneOfEach == {Chars("*"), Chars("+"), Chars("=="), Chars("<")}

OpSeqs ==
  [1..1 -> OpSpellings] \cup [1..2 -> OpSpellings]
  \cup UNION {[1..n -> OneOfEach] : n \in 3..MaxOps}

\* 1 op1 2 op2 3 ...
RECURSIVE ChainText(_, _)
ChainText(os, n) ==
  IF n = 0 THEN Operand(1)
  ELSE ChainText(os, n - 1) \o Chars(" ") \o os[n] \o Chars(" ") \o Operand(n + 1)

ChainTexts == {ChainText(os, Len(os)) : os \in OpSeqs}

\* the chains, some followed by a comment, some left unfinished
ExprTexts ==
  ChainTexts
  \cup {ChainText(os, Len(os)) \o Chars(" //c") : os \in [1..1 -> OpSpellings]}
  \cup {ChainText(os, Len(os)) \o Chars(" ") \o os[1] : os \in [1..1 -> OpSpellings]}

InitExpr == \E txt \in ExprTexts : Start(txt)

SpecExpr == InitExpr /\ [][Next]_vars

---------------------------------------------------------------------------
(* Reading a tree. *)

RECURSIVE Nodes(_)
Nodes(n) == {n} \cup UNION {Nodes(n.c[i]) : i \in 1..Len(n.c)}

\* the children of a node without the extras among them
Kids(n) == SelectSeq(n.c, LAMBDA c : ~c.x)

IsBinary(n) == n.k = "binary_expression"

\* the operator of a binary_expression node
OpOf(b) == Kids(b)[2].k

\* the binary_expression nodes that are operands of b
BinaryOperands(b) == {Kids(b)[i] : i \in {j \in {1, 3} : IsBinary(Kids(b)[j])}}

\* the text a node covers
Covered(n) == SubSeq(text, n.s, n.e)

\* the precedence classes in the order equality < relational < sum < product
ClassOf(op) ==
  CASE op \in {"'=='", "'!='"} -> 1
    [] op \in {"'<'", "'>'", "'<='", "'>='"} -> 2
    [] op \in {"'+'", "'-'"} -> 3
    [] op \in {"'*'", "'/'"} -> 4
    [] OTHER -> 0

\* the parse of an operator chain is one expression over the whole chain
WholeChain ==
  /\ Len(Kids(tree)) = 1
  /\ Kids(tree)[1].s = 1
  /\ Kids(tree)[1].e = Len(text)
  /\ Len(text) > 1 => IsBinary(Kids(tree)[1])

\* C1: in an expression of binary operators, an operand that is itself a
\* binary expression of a different precedence class has the higher class
\* (equality < relational < sum < product), so the operator of the higher
\* class binds tighter; every operator chain parses, as one expression.
C1_HigherClassBindsTighter ==
  /\ text \in ChainTexts => pc # "error"
  /\ (pc = "done" /\ text \in ChainTexts) =>
       /\ WholeChain
       /\ \A b \in {n \in Nodes(tree) : IsBinary(n)} :
            \A o \in BinaryOperands(b) :
              ClassOf(OpOf(o)) # ClassOf(OpOf(b)) => ClassOf(OpOf(o)) > ClassOf(OpOf(b))

\* `1 + 2 * 3` is parsed: the right operand of + is the expression 2 * 3
C1_Witness ==
  /\ pc = "done"
  /\ text = Chars("1 + 2 * 3")
  /\ OpOf(Kids(tree)[1]) = "'+'"
  /\ IsBinary(Kids(Kids(tree)[1])[3])
  /\ Covered(Kids(Kids(tree)[1])[3]) = Chars("2 * 3")

\* C2: binary operators are left-associative: the right operand of a binary
\* expression is never a binary expression of the same precedence class, so
\* `a op1 b op2 c` with op1, op2 of one class is `(a op1 b) op2 c`.
C2_LeftAssociative ==
  (pc = "done" /\ text \in ChainTexts) =>
    \A b \in {n \in Nodes(tree) : IsBinary(n)} :
      /\ Len(Kids(b)) = 3
      /\ IsBinary(Kids(b)[3]) => ClassOf(OpOf(Kids(b)[3])) # ClassOf(OpOf(b))

\* `1 - 2 + 3` is parsed: the left operand of + is the expression 1 - 2
C2_Witness ==
  /\ pc = "done"
  /\ text = Chars("1 - 2 + 3")
  /\ OpOf(Kids(tree)[1]) = "'+'"
  /\ IsBinary(Kids(Kids(tree)[1])[1])
  /\ Covered(Kids(Kids(tree)[1])[1]) = Chars("1 - 2")

---------------------------------------------------------------------------
(* Nested if statements without braces. *)

MaxIfDepth == 3

\* d nested ifs, one statement, k else parts
IfText(d, k) == Rep(Chars("if c "), d) \o Chars("x") \o Rep(Chars(" else y"), k)

IfNests == UNION {{IfText(d, k) : k \in 0..d} : d \in 1..MaxIfDepth}

\* the nests, one with a comment inside, one cut short
IfTexts == IfNests \cup {Chars("if c /* c */ x else y"), Chars("if c if c")}

InitIf == \E txt \in IfTexts : Start(txt)

SpecIf == InitIf /\ [][Next]_vars

\* the children of n in field f
Field(n, f) == SelectSeq(Kids(n), LAMBDA c : c.f = f)

IsIf(n) == n.k = "if_statement"

\* the if statements nested through the consequence field, outermost first
RECURSIVE IfChain(_)
IfChain(n) ==
  IF ~IsIf(n) THEN <<>>
  ELSE <<n>> \o (IF Field(n, "consequence") = <<>> THEN <<>>
                 ELSE IfChain(Field(n, "consequence")[1]))

\* the else words of the text that were consumed as the else of an if
ElseCount(n) == Cardinality({m \in Nodes(n) : m.k = "else_keyword"})

\* C3: in d nested brace-less ifs followed by k <= d else parts, the else
\* parts belong to the innermost k ifs: each else binds to the nearest if
\* without an alternative, the outer ifs have none; an if_statement has an
\* alternative exactly when an else was consumed for it.
C3_ElseBindsToNearestIf ==
  /\ text \in IfNests => pc # "error"
  /\ pc = "done" =>
       /\ \A n \in {m \in Nodes(tree) : IsIf(m)} :
            /\ Len(Field(n, "condition")) = 1
            /\ Len(Field(n, "consequence")) = 1
            /\ Len(Field(n, "alternative")) = Len(Field(n, "else_keyword"))
            /\ Len(Field(n, "alternative")) <= 1
       /\ \A d \in 1..MaxIfDepth : \A k \in 0..d :
            text = IfText(d, k) =>
              /\ Len(IfChain(tree.c[1])) = d
              /\ ElseCount(tree) = k
              /\ \A i \in 1..d :
                   Field(IfChain(tree.c[1])[i], "alternative") # <<>> <=> i > d - k

\* `if c if c x else y` is parsed: the inner if has the alternative
C3_Witness ==
  /\ pc = "done"
  /\ text = Chars("if c if c x else y")
  /\ Field(tree.c[1], "alternative") = <<>>
  /\ Field(IfChain(tree.c[1])[2], "alternative") # <<>>
  /\ Covered(IfChain(tree.c[1])[2]) = Chars("if c x else y")

---------------------------------------------------------------------------
(* Brace groups: the bodies of statements, and dictionaries. *)

MaxStmts == 2

\* a brace group around n statements
Group(n) == Chars("{") \o Rep(Chars(" x"), n) \o Chars(" }")

\* brace groups written as dictionaries
DictGroups == {Chars("{ }"), Chars("{ \"k\": 1 }")}

\* the places a body stands in: the text before it and its field
BodyPlaces ==
  {[pre |-> Chars("if true "), post |-> <<>>, f |-> "consequence"],
   [pre |-> Chars("if true x else "), post |-> <<>>, f |-> "alternative"],
   [pre |-> Chars("for i in x "), post |-> <<>>, f |-> "body"],
   [pre |-> Chars("repeat "), post |-> <<>>, f |-> "body"],
   [pre |-> Chars("repeat 5 "), post |-> <<>>, f |-> "body"],
   [pre |-> Chars("repeat x for 5 "), post |-> <<>>, f |-> "body"],
   [pre |-> Chars("menu "), post |-> <<>>, f |-> "body"],
   [pre |-> Chars("menu \"t\" "), post |-> <<>>, f |-> "body"],
   [pre |-> Chars("item \"t\": "), post |-> <<>>, f |-> "body"]}

\* the places an expression stands in: the text around it and its field
ExprPlaces ==
  {[pre |-> Chars("x = "), post |-> <<>>, f |-> "value"],
   [pre |-> Chars("foo("), post |-> Chars(")"), f |-> "arguments"],
   [pre |-> Chars("if "), post |-> Chars(" x"), f |-> "condition"],
   [pre |-> Chars("repeat "), post |-> Chars(" x"), f |-> "count"],
   [pre |-> Chars("menu "), post |-> Chars(" { x }"), f |-> "title"],
   [pre |-> Chars("item "), post |-> Chars(": x"), f |-> "title"]}

BodyTexts == {c.pre \o Group(n) : c \in BodyPlaces, n \in 0..MaxStmts}

DictTexts == {c.pre \o d \o c.post : c \in ExprPlaces, d \in DictGroups}

\* what may follow the closing brace of a repeat statement
Followers == {<<>>, Chars(" foo"), Chars("\nfoo"), Chars(" @y = 1"), Chars(" // c")}

RepeatHeads == {Chars("repeat x for 5 "), Chars("repeat 5 "), Chars("repeat ")}

RepeatTexts == {h \o Group(n) \o w : h \in RepeatHeads, n \in 0..MaxStmts, w \in Followers}

BraceTexts == BodyTexts \cup DictTexts \cup RepeatTexts \cup {Chars("repeat {")}

InitBrace == \E txt \in BraceTexts : Start(txt)

SpecBrace == InitBrace /\ [][Next]_vars

\* the fields of the children of n
FieldsOf(n) == {Kids(n)[i].f : i \in 1..Len(Kids(n))} \ {""}

\* the fields of the three forms of repeat_statement
RepeatShape(h) ==
  CASE h = Chars("repeat x for 5 ") -> {"repeat_keyword", "variable", "for_keyword", "count", "body"}
    [] h = Chars("repeat 5 ") -> {"repeat_keyword", "count", "body"}
    [] OTHER -> {"repeat_keyword", "body"}

\* C4: `repeat x for 5 { }`, `repeat 5 { }` and `repeat { }` parse as a
\* repeat_statement with the fields (variable, count, body), (count, body)
\* and (body); every repeat_statement has one of these shapes; and the shape
\* is the same whatever follows the closing brace.
C4_RepeatShapes ==
  /\ text \in RepeatTexts => pc # "error"
  /\ pc = "done" =>
       /\ \A r \in {n \in Nodes(tree) : n.k = "repeat_statement"} :
            \E h \in RepeatHeads : FieldsOf(r) = RepeatShape(h)
       /\ \A h \in RepeatHeads : \A n \in 0..MaxStmts : \A w \in Followers :
            text = h \o Group(n) \o w =>
              /\ Kids(tree)[1].k = "repeat_statement"
              /\ FieldsOf(Kids(tree)[1]) = RepeatShape(h)

\* `repeat { } foo` is parsed as one statement: the braces are the count
C4_Witness ==
  /\ pc = "done"
  /\ text = Chars("repeat { } foo")
  /\ Len(Kids(tree)) = 1
  /\ FieldsOf(Kids(tree)[1]) = {"repeat_keyword", "count", "body"}

\* the brace group that starts after the text pre
GroupAt(pre) ==
  {n \in Nodes(tree) : n.s = Len(pre) + 1 /\ n.k \in {"block", "dictionary"}}

\* C5: a brace group where an expression is expected is a dictionary; a brace
\* group in the body position of if, else, for, repeat, menu or item, around
\* zero or more statements, is a block and never a dictionary.
C5_BlockOrDictionary ==
  /\ text \in BodyTexts \cup DictTexts => pc # "error"
  /\ pc = "done" =>
       /\ \A c \in BodyPlaces : \A n \in 0..MaxStmts :
            text = c.pre \o Group(n) =>
              \E g \in GroupAt(c.pre) : g.f = c.f /\ g.k = "block"
       /\ \A c \in ExprPlaces : \A d \in DictGroups :
            text = c.pre \o d \o c.post =>
              \E g \in GroupAt(c.pre) : g.f = c.f /\ g.k = "dictionary"

\* `if true { }` is parsed: the consequence is a dictionary
C5_Witness ==
  /\ pc = "done"
  /\ text = Chars("if true { }")
  /\ Field(Kids(tree)[1], "consequence")[1].k = "dictionary"

---------------------------------------------------------------------------
(* Assignments and declarations. *)

AtNames == {Chars("@x"), Chars("@foo"), Chars("@a1")}

IdNames == {Chars("x"), Chars("foo")}

Values == {Chars("5"), Chars("1 + 2"), Chars("foo(1)")}

Types == {Chars("text"), Chars("T")}

\* with or without a separator
Gaps == {<<>>, Chars(" ")}

Consts == {<<>>, Chars("const ")}

AssignText(c, t, g1, g2, v) == c \o t \o g1 \o Chars("=") \o g2 \o v

DeclText(t, g1, g2, ty) == t \o g1 \o Chars(":") \o g2 \o ty

AssignTexts ==
  {AssignText(c, t, g1, g2, v) :
     c \in Consts, t \in AtNames \cup IdNames, g1 \in Gaps, g2 \in Gaps, v \in Values}

DeclTexts == {DeclText(t, g1, g2, ty) : t \in AtNames, g1 \in Gaps, g2 \in Gaps, ty \in Types}

\* the statements, one followed by a comment, one cut short
NameTexts == AssignTexts \cup DeclTexts \cup {Chars("@x = 5 // c"), Chars("@x =")}

InitName == \E txt \in NameTexts : Start(txt)

SpecName == InitName /\ [][Next]_vars

\* node n has exactly one child in field f, and it covers txt
FieldCovers(n, f, txt) == Len(Field(n, f)) = 1 /\ Covered(Field(n, f)[1]) = txt

\* C6: `@name` or an identifier, optionally after `const`, then `=` and an
\* expression is an assignment with that name and the whole expression as
\* value; `@name`, `:` and a type is a declaration with name and type and no
\* value; with or without separators around the `=` or `:`.
C6_AssignmentOrDeclaration ==
  /\ text \in AssignTexts \cup DeclTexts => pc # "error"
  /\ pc = "done" =>
       /\ \A c \in Consts : \A t \in AtNames \cup IdNames :
            \A g1 \in Gaps : \A g2 \in Gaps : \A v \in Values :
              text = AssignText(c, t, g1, g2, v) =>
                /\ Len(Kids(tree)) = 1
                /\ Kids(tree)[1].k = "assignment"
                /\ FieldCovers(Kids(tree)[1], "name", t)
                /\ FieldCovers(Kids(tree)[1], "value", v)
                /\ Field(Kids(tree)[1], "const_modifier") # <<>> <=> c # <<>>
       /\ \A t \in AtNames : \A g1 \in Gaps : \A g2 \in Gaps : \A ty \in Types :
            text = DeclText(t, g1, g2, ty) =>
              /\ Len(Kids(tree)) = 1
              /\ Kids(tree)[1].k = "declaration"
              /\ FieldCovers(Kids(tree)[1], "name", t)
              /\ FieldCovers(Kids(tree)[1], "type", ty)
              /\ Field(Kids(tree)[1], "value") = <<>>

\* `@x=5` is parsed: the statement is one at_variable over the whole text
C6_Witness ==
  /\ pc = "done"
  /\ text = Chars("@x=5")
  /\ Kids(tree)[1].k = "at_variable"
  /\ Covered(Kids(tree)[1]) = text

---------------------------------------------------------------------------
(* Reserved words. *)

\* the literals spelled like an identifier
ReservedWords ==
  {Spelling[i][2] : i \in {j \in 1..Len(Spelling) : Spelling[j][2][1] \in IdStart}}

\* the places a word stands in
WordPlaces ==
  {[pre |-> <<>>, post |-> Chars(" = 5")],
   [pre |-> Chars("x = "), post |-> <<>>],
   [pre |-> Chars("for "), post |-> Chars(" in x y")],
   [pre |-> Chars("@x: "), post |-> <<>>],
   [pre |-> Chars("#define "), post |-> <<>>],
   [pre |-> Chars("{"), post |-> Chars(": 1}")],
   [pre |-> <<>>, post |-> Chars("(1)")]}

ReservedTexts == {c.pre \o w \o c.post : c \in WordPlaces, w \in ReservedWords}

\* words that begin with a reserved word
LongerWords == {w \o Chars("s") : w \in ReservedWords} \cup {Chars("iffy")}

LongerTexts == {Chars("x = ") \o w : w \in LongerWords}

WordTexts == ReservedTexts \cup LongerTexts \cup {Chars("x = if // c")}

InitWord == \E txt \in WordTexts : Start(txt)

SpecWord == InitWord /\ [][Next]_vars

\* C8: a word that is exactly a reserved spelling is never an identifier
\* node, wherever it stands; a word that only begins with a reserved
\* spelling is an identifier.
C8_ReservedWords ==
  pc = "done" =>
    /\ \A n \in {m \in Nodes(tree) : m.k = "identifier"} : Covered(n) \notin ReservedWords
    /\ \A w \in LongerWords :
         text = Chars("x = ") \o w =>
           /\ FieldCovers(Kids(tree)[1], "value", w)
           /\ Field(Kids(tree)[1], "value")[1].k = "identifier"

\* `in = 5` is parsed: the name of the assignment is the identifier `in`
C8_Witness ==
  /\ pc = "done"
  /\ text = Chars("in = 5")
  /\ Field(Kids(tree)[1], "name")[1].k = "identifier"
  /\ Covered(Field(Kids(tree)[1], "name")[1]) = Chars("in")

---------------------------------------------------------------------------
(* Double-quoted strings. *)

MaxSegs == 3

\* the segments a string is written from, with the kind each is read as:
\* literal text, an escape, an interpolation
Segments ==
  {[k |-> "string_content", txt |-> Chars("a")],
   [k |-> "string_content", txt |-> Chars("b ")],
   [k |-> "escape_sequence", txt |-> Chars("\\n")],
   [k |-> "interpolation", txt |-> Chars("{1+1}")],
   [k |-> "interpolation", txt |-> Chars("{a//b}")]}

SegSeqs == UNION {[1..n -> Segments] : n \in 0..MaxSegs}

\* the parts the segments make: literal runs that touch are one part
RECURSIVE PartsOf(_)
PartsOf(segs) ==
  IF segs = <<>> THEN <<>>
  ELSE LET before == PartsOf(SubSeq(segs, 1, Len(segs) - 1))
           seg == segs[Len(segs)]
       IN IF /\ before # <<>>
             /\ seg.k = "string_content"
             /\ before[Len(before)].k = "string_content"
          THEN [before EXCEPT ![Len(before)].txt = @ \o seg.txt]
          ELSE Append(before, seg)

StringText(segs) ==
  Chars("\"") \o Flatten([i \in 1..Len(segs) |-> segs[i].txt]) \o Chars("\"")

StringTexts == {StringText(segs) : segs \in SegSeqs} \cup {Chars("\"a\" // c")}

InitString == \E txt \in StringTexts : Start(txt)

SpecString == InitString /\ [][Next]_vars

\* the parts of a string node: its children between the quotes
Parts(str) == SelectSeq(Kids(str), LAMBDA c : c.k # "'dq'")

\* C7: a double-quoted string is the sequence of its segments in source
\* order: maximal literal runs, escape sequences, and interpolations from a
\* `{` to the first following `}`; `"a{1+1}b"` has three parts; the parts
\* together cover the text between the quotes.
C7_StringParts ==
  \A segs \in SegSeqs :
    text = StringText(segs) =>
      /\ pc # "error"
      /\ pc = "done" =>
           /\ Kids(tree)[1].k = "string"
           /\ Len(Parts(Kids(tree)[1])) = Len(PartsOf(segs))
           /\ \A i \in 1..Len(PartsOf(segs)) :
                /\ Parts(Kids(tree)[1])[i].k = PartsOf(segs)[i].k
                /\ Covered(Parts(Kids(tree)[1])[i]) = PartsOf(segs)[i].txt

\* `"{a//b}"` is not parsed: a comment was read from the `//` to the end of
\* the text, and the text ends inside the interpolation
C7_Witness ==
  /\ pc = "error"
  /\ text = Chars("\"{a//b}\"")
  /\ la.t = "$end"
  /\ stack[Len(stack)].extra
  /\ Covered(stack[Len(stack)].forest[1]) = Chars("//b}\"")

---------------------------------------------------------------------------
(* Comments. *)

MaxBody == 3

BodyChars == {"a", "*", "/", " ", "\n"}

Bodies == UNION {[1..n -> BodyChars] : n \in 0..MaxBody}

\* the text has the closing mark of a block comment at i
ClosesAt(txt, i) == Ch(txt, i) = "*" /\ Ch(txt, i + 1) = "/"

\* the bodies of a block comment: the first closing mark after the opening
\* one is the one written after the body
BlockBodies == {b \in Bodies : \A i \in 1..Len(b) : ~ClosesAt(b \o Chars("*/"), i)}

LineBodies == {b \in Bodies : \A i \in 1..Len(b) : b[i] # "\n"}

BlockText(b) == Chars("/*") \o b \o Chars("*/\nx")

LineText(b) == Chars("//") \o b \o Chars("\nx")

CommentTexts == {BlockText(b) : b \in BlockBodies} \cup {LineText(b) : b \in LineBodies}

InitComment == \E txt \in CommentTexts : Start(txt)

SpecComment == InitComment /\ [][Next]_vars

\* the tree is one comment over the first n characters, an extra, and then
\* the one statement x
CommentThenX(n) ==
  /\ Len(tree.c) = 2
  /\ tree.c[1].k = "comment" /\ tree.c[1].x
  /\ tree.c[1].s = 1 /\ tree.c[1].e = n
  /\ Len(Kids(tree)) = 1 /\ Kids(tree)[1].k = "identifier"

\* C9: a block comment runs from `/*` through the first following `*/`,
\* whatever the body (also one ending in `*`, as in `/***/`); a line comment
\* runs from `//` to the end of the line; both are extras, not statements.
C9_Comments ==
  /\ \A b \in BlockBodies :
       text = BlockText(b) => pc # "error" /\ (pc = "done" => CommentThenX(Len(b) + 4))
  /\ \A b \in LineBodies :
       text = LineText(b) => pc # "error" /\ (pc = "done" => CommentThenX(Len(b) + 2))

\* `/***/` is not parsed: no token is found at its first character
C9_Witness ==
  /\ pc = "error"
  /\ text = BlockText(Chars("*"))
  /\ la.t = "?"
  /\ la.s = 1

---------------------------------------------------------------------------
(* Separators and comments between tokens: a text is parsed, then parsed  *)
(* again with a filler put between two adjacent tokens.                   *)

MaxBlank == 2

\* runs of separator characters
Blanks == UNION {[1..n -> {" ", "\n"}] : n \in 1..MaxBlank}

\* comments set off by separators; a line comment has a line end after it
SetOffComments == {Chars(" /* c */ "), Chars(" // c\n"), Chars("\n/* c\n*/\n")}

\* comments with nothing around them
BareComments == {Chars("/* c */"), Chars("// c")}

Fillers == Blanks \cup SetOffComments \cup BareComments

ElideTexts ==
  {Chars("@x = 5"), Chars("@x:text"), Chars("x=foo(1,2)"), Chars("if a {x} else y"),
   Chars("x = \"a{1}\""), Chars("x = \"\""), Chars("#define 'a'"), Chars("1+2*3")}

InitElide == \E txt \in ElideTexts : Start(txt)

\* the shape of a tree: kinds, fields and nesting, without the extras
RECURSIVE Shape(_)
Shape(n) ==
  [k |-> n.k, f |-> n.f, c |-> [i \in 1..Len(Kids(n)) |-> Shape(Kids(n)[i])]]

\* the tokens of a tree, in source order
RECURSIVE Leaves(_)
Leaves(n) ==
  IF n.c = <<>> THEN <<n>> ELSE Flatten([i \in 1..Len(Kids(n)) |-> Leaves(Kids(n)[i])])

\* tokens a and b both lie in a string literal
Quoted(a, b) ==
  \E n \in Nodes(tree) :
    n.k \in {"string", "single_quoted_string"} /\ n.s <= a.s /\ b.e <= n.e

Reparse ==
  /\ pc = "done"
  /\ base = NoBase
  /\ \E i \in 1..(Len(Leaves(tree)) - 1) : \E fill \in Fillers :
       /\ text' = SubSeq(text, 1, Leaves(tree)[i].e) \o fill
                    \o SubSeq(text, Leaves(tree)[i].e + 1, Len(text))
       /\ base' = [shape |-> Shape(tree), at |-> Leaves(tree)[i].e, fill |-> fill,
                   quoted |-> Quoted(Leaves(tree)[i], Leaves(tree)[i + 1])]
  /\ pos' = 1
  /\ la' = NoToken
  /\ stack' = <<[st |-> State0(G), forest |-> <<>>, extra |-> FALSE]>>
  /\ pc' = "parse"
  /\ tree' = NoNode
  /\ UNCHANGED rev

NextElide == Next \/ Reparse

SpecElide == InitElide /\ [][NextElide]_vars

---------------------------------------------------------------------------
(* The two revisions of the grammar on the same text: the parser made     *)
(* from the first revision reads it, then the parser made from the        *)
(* second reads it again.                                                 *)

Directives == {Spelling[i][2] : i \in {j \in 1..Len(Spelling) : Spelling[j][2][1] = "#"}}

\* what may follow a directive: the five kinds of value, a number, nothing
PragmaValues ==
  {Chars(" \"a\""), Chars(" 'b'"), Chars(" x"), Chars(" name"), Chars(" text"),
   Chars(" /* c */ x"), Chars(" 5"), <<>>}

PragmaTexts == {d \o v : d \in Directives, v \in PragmaValues}

\* statements with the keywords of each rule, and some cut short or miswritten
KeywordTexts ==
  {Chars("const x = true"), Chars("const @x = false"), Chars("const = 5"),
   Chars("if true x else y"), Chars("if c { x } else { y }"), Chars("else x"),
   Chars("for i in list { x }"), Chars("for i in x y // c"), Chars("for x 5"),
   Chars("repeat i for 5 { x }"), Chars("repeat 5 x"), Chars("repeat { x }"),
   Chars("repeat i for"),
   Chars("menu \"m\" { item \"a\": x }"), Chars("menu { }"), Chars("menu x"),
   Chars("item x: y"), Chars("item x y"),
   Chars("x = Device"), Chars("@x: bool"), Chars("nil(1, text)"),
   Chars("#define x\nconst y = Ask")}

RevTexts == PragmaTexts \cup KeywordTexts \cup ReservedTexts \cup IfTexts

InitRevs == \E txt \in RevTexts : Start(txt)

\* the first parser has finished; the second starts on the same text, and
\* what the first made of it is kept: its tree, or NoNode when it rejected
OtherRevision ==
  /\ rev = 1
  /\ pc \in {"done", "error"}
  /\ base' = [NoBase EXCEPT !.shape = IF pc = "done" THEN tree ELSE NoNode]
  /\ rev' = 2
  /\ pos' = 1
  /\ la' = NoToken
  /\ stack' = <<[st |-> State0(G_plain), forest |-> <<>>, extra |-> FALSE]>>
  /\ pc' = "parse"
  /\ tree' = NoNode
  /\ UNCHANGED text

NextRevs == Next \/ OtherRevision

SpecRevs == InitRevs /\ [][NextRevs]_vars

\* the steps of the first revision that rename a literal
AliasSteps ==
  {st \in UNION {{Prods[p].rhs[i] : i \in 1..Len(Prods[p].rhs)} : p \in 1..Len(Prods)} :
     st.a # ""}

\* a tree of the first revision without what only its aliases make: a
\* renamed literal is the literal again, without the field that labels it;
\* the children of a pragma_directive stand in its place
RECURSIVE Unaliased(_)
Unaliased(n) ==
  LET kids == Flatten([i \in 1..Len(n.c) |-> Unaliased(n.c[i])])
      sts == {st \in AliasSteps : st.a = n.k}
  IN IF n.k = "pragma_directive" THEN kids
     ELSE IF sts # {}
     THEN LET st == CHOOSE x \in sts : TRUE
          IN <<[n EXCEPT !.k = st.s, !.n = FALSE,
                         !.f = IF @ = st.f THEN "" ELSE @]>>
     ELSE <<[n EXCEPT !.c = kids]>>

\* C11: the two revisions accept the same texts, and on an accepted text
\* the tree of the second revision is the tree of the first with the
\* alias-only nodes and the keyword-labelling fields taken away.
C11_RevisionsAgree ==
  (rev = 2 /\ pc \in {"done", "error"}) =>
    /\ (pc = "done") <=> (base.shape # NoNode)
    /\ pc = "done" => <<tree>> = Unaliased(base.shape)

\* `#define x` and `const y = Ask` read by both: the first tree has a
\* pragma_directive, a const_keyword and a named constant's alias, the
\* second has the plain literals in their places
C11_Witness ==
  /\ rev = 2
  /\ pc = "done"
  /\ text = Chars("#define x\nconst y = Ask")
  /\ {"pragma_directive", "define_directive", "const_keyword", "ask_constant"}
       \subseteq {n.k : n \in Nodes(base.shape)}
  /\ {"'#define'", "'const'", "'Ask'"} \subseteq {n.k : n \in Nodes(tree)}
  /\ tree # base.shape

---------------------------------------------------------------------------
(* The parser on all the source texts above. *)

Init ==
  \/ InitExpr \/ InitIf \/ InitBrace \/ InitName \/ InitWord
  \/ InitString \/ InitComment \/ InitElide \/ InitRevs

Spec == Init /\ [][Next]_vars

===========================================================================
